---------------------------- MODULE Spec2Model ----------------------------
(***************************************************************************)
(* A model of the C++ generator of the SixtyFPS compiler                   *)
(* (sixtyfps_compiler/generator/cpp.rs) and of the audio playback thread   *)
(* of the ffmpeg example (examples/ffmpeg/player/audio.rs).                *)
(*                                                                         *)
(* Text is modelled as a sequence of tokens (strings): format!/write!      *)
(* concatenate token sequences, and two texts are byte-identical when      *)
(* their token sequences are equal.                                        *)
(***************************************************************************)
EXTENDS Integers, Sequences, FiniteSets, TLC

VARIABLES
    \* ---- expression compiler, applied on its own (ExprSpec)
    expr,                       \* the expression handed to compile_expression
    compiled,                   \* Pending, or Some(its result)
    \* ---- generate() (Spec)
    component,                  \* the Component being emitted
    diag,                       \* the Diagnostics sink: a sequence of CompilerDiagnostic
    diag0,                      \* the sink as the caller handed it in
    pc,                         \* position inside generate()
    prop_iter,                  \* index of the next root property declaration (loop at 212)
    declared_property_members,  \* Vec<String>
    declared_property_vars,     \* Vec<Declaration>
    main_struct,                \* Struct { name, members }
    init,                       \* Vec<String>: the constructor statements
    stack,                      \* the pending handle_item calls (recursion at 197-199)
    visits,                     \* the visitor invocations build_array_helper still owes
    tree_array,                 \* String
    x,                          \* File { includes, declarations }
    result,                     \* Pending, None or Some(x)
    \* ---- rendering (Display) and repeated emission
    INDETATION,                 \* the thread-local Cell<u32>
    emission,                   \* 1 or 2: which emission of the same Component this is
    first,                      \* what the first emission produced
    renders,                    \* number of renders so far
    lastRender,                 \* outcome of the last render
    okText,                     \* the text of the first render that returned Ok
    \* ---- audio playback thread (AudioSpec)
    au

genVars == <<component, diag, diag0, pc, prop_iter, declared_property_members,
             declared_property_vars, main_struct, init, stack, visits, tree_array,
             x, result>>
renderVars == <<INDETATION, emission, first, renders, lastRender, okText>>
exprVars == <<expr, compiled>>
vars == <<exprVars, genVars, renderVars, au>>

\* Option<T>, and a result not produced yet
None == [tag |-> "None"]
Some(v) == [tag |-> "Some", v |-> v]
Pending == [tag |-> "Pending"]
\* the value of a variable the specification at hand does not use
Unused == "unused"

GenUnused ==
    /\ component = Unused /\ diag = Unused /\ diag0 = Unused /\ pc = Unused
    /\ prop_iter = Unused /\ declared_property_members = Unused
    /\ declared_property_vars = Unused /\ main_struct = Unused /\ init = Unused
    /\ stack = Unused /\ visits = Unused /\ tree_array = Unused /\ x = Unused
    /\ result = Unused
RenderUnused ==
    /\ INDETATION = Unused /\ emission = Unused /\ first = Unused
    /\ renders = Unused /\ lastRender = Unused /\ okText = Unused
ExprUnused == expr = Unused /\ compiled = Unused

--------------------------------------------------------------------------
(* Bounds *)

MaxCastDepth == 2
MaxElems == 4

--------------------------------------------------------------------------
(* Sequence helpers *)

RECURSIVE Flatten(_)
Flatten(ss) == IF ss = <<>> THEN <<>> ELSE Head(ss) \o Flatten(Tail(ss))

Range(s) == {s[i] : i \in DOMAIN s}

RECURSIVE SumSeq(_)
SumSeq(s) == IF s = <<>> THEN 0 ELSE Head(s) + SumSeq(Tail(s))

--------------------------------------------------------------------------
(* typeregister::Type and expression_tree::Expression *)

SupportedTypes == {"Float32", "Int32", "String", "Color", "Bool"}
Types == SupportedTypes \cup {"Invalid", "Signal"}

StringLiteral(s) == [kind |-> "StringLiteral", s |-> s]
NumberLiteral(n) == [kind |-> "NumberLiteral", n |-> n]
PropertyReference(name, t) == [kind |-> "PropertyReference", name |-> name, ty |-> t]
SignalReference(name) == [kind |-> "SignalReference", name |-> name]
Cast(from, to) == [kind |-> "Cast", from |-> from, to |-> to]
Invalid == [kind |-> "Invalid"]

\* String literals are sequences of characters.
Literals == {<<"h", "i">>, <<"a", "\"", "\\", "\n">>}

BaseExprs ==
    {StringLiteral(s) : s \in Literals}
    \cup {NumberLiteral(n) : n \in {0, 42}}
    \cup {PropertyReference("p", t) : t \in {"Int32", "Float32", "String", "Color"}}
    \cup {SignalReference("s"), Invalid}

RECURSIVE ExprsUpTo(_)
ExprsUpTo(d) ==
    IF d = 0 THEN BaseExprs
    ELSE LET sub == ExprsUpTo(d - 1)
         IN  sub \cup {Cast(f, t) : f \in sub, t \in Types}

Exprs == ExprsUpTo(MaxCastDepth)

\* Expression::ty(): the semantic type of an expression
RECURSIVE ty(_)
ty(e) ==
    CASE e.kind = "StringLiteral" -> "String"
      [] e.kind = "NumberLiteral" -> "Float32"
      [] e.kind = "PropertyReference" -> e.ty
      [] e.kind = "SignalReference" -> "Signal"
      [] e.kind = "Cast" -> e.to
      [] OTHER -> "Invalid"

--------------------------------------------------------------------------
(* compile_expression *)

\* char::escape_default on the characters the literals use
EscapeChar(c) ==
    CASE c = "\"" -> <<"\\", "\"">>
      [] c = "\\" -> <<"\\", "\\">>
      [] c = "\n" -> <<"\\", "n">>
      [] OTHER -> <<c>>

escape_default(s) == Flatten([i \in DOMAIN s |-> EscapeChar(s[i])])

\* {:?} of the expressions that reach the catch-all arm
DebugText(e) ==
    IF e.kind = "SignalReference"
    THEN <<"SignalReference { name: \"", e.name, "\" }">>
    ELSE <<e.kind>>

ErrorMarker == "\n#error: unsupported expression "

FromNumber(f) == <<"sixtyfps::SharedString::from_number(">> \o f \o <<")">>

CastWrapsMutant(from_ty, to) == from_ty = "Float32" /\ to = "String"
CastWraps(from_ty, to) == from_ty \in {"Float32", "Int32"} /\ to = "String"

\* the catch-all arm: the inline error marker
UnloweredMutant(e) == <<"0">>
Unlowered(e) == <<ErrorMarker>> \o DebugText(e) \o <<"\n">>

RECURSIVE compile_expression(_)
compile_expression(e) ==
    CASE e.kind = "StringLiteral" ->
            <<"sixtyfps::SharedString(\"">> \o escape_default(e.s) \o <<"\")">>
      [] e.kind = "NumberLiteral" -> <<ToString(e.n)>>
      [] e.kind = "PropertyReference" -> <<e.name, ".get(nullptr)">>
      [] e.kind = "Cast" ->
            LET f == compile_expression(e.from)
            IN  IF CastWraps(ty(e.from), e.to) THEN FromNumber(f) ELSE f
      [] OTHER -> Unlowered(e)

--------------------------------------------------------------------------
(* ExprSpec: compile_expression applied to every expression of the bound *)

ExprInit ==
    /\ expr \in Exprs
    /\ compiled = Pending
    /\ GenUnused /\ RenderUnused /\ au = Unused

Compile ==
    /\ compiled = Pending
    /\ compiled' = Some(compile_expression(expr))
    /\ UNCHANGED <<expr, genVars, renderVars, au>>

ExprNext == Compile

ExprSpec == ExprInit /\ [][ExprNext]_vars

RECURSIVE CastDepth(_)
CastDepth(e) == IF e.kind = "Cast" THEN 1 + CastDepth(e.from) ELSE 0

IsFromNumberOf(text, f) ==
    /\ Len(text) = Len(f) + 2
    /\ text[1] = "sixtyfps::SharedString::from_number("
    /\ text[Len(text)] = ")"
    /\ SubSeq(text, 2, Len(text) - 1) = f

\* C7: the text compiled for a Cast, at any nesting depth, is the text compiled
\* for its source sub-expression wrapped in SharedString::from_number(...) exactly
\* when the source type is Float32 or Int32 and the target type is String, and is
\* that text unchanged for every other pair of types.
C7_CastCompilation ==
    (compiled.tag = "Some" /\ expr.kind = "Cast") =>
        LET f == compile_expression(expr.from)
            numeric_to_string == ty(expr.from) \in {"Float32", "Int32"} /\ expr.to = "String"
        IN  /\ numeric_to_string => IsFromNumberOf(compiled.v, f)
            /\ ~numeric_to_string => compiled.v = f

\* an Int32 cast of a property, itself cast to String, has been compiled
C7_Witness ==
    /\ compiled.tag = "Some"
    /\ expr.kind = "Cast" /\ expr.to = "String"
    /\ expr.from.kind = "Cast" /\ expr.from.to = "Int32"
    /\ expr.from.from.kind = "PropertyReference"
    /\ CastDepth(expr) = 2

--------------------------------------------------------------------------
(* object_tree: Component, Element, PropertyDeclaration *)

Ids == <<"e1", "e2", "e3", "e4", "e5", "e6">>
ClassNames == <<"Rectangle", "Text">>
VTableSymbols == <<"RectangleVTable", "TextVTable">>

PropertyDeclaration(name, t, loc) ==
    [name |-> name, property_type |-> t, type_location |-> loc]

Binding(name, e) == [name |-> name, expr |-> e]

\* Element i of the arena; children are arena indices in declaration order.
\* bindings, property_declarations and signals_declaration are held in the
\* order their iterators yield them.
Element(i, children, bindings, props, sigs) ==
    [id |-> Ids[i],
     class_name |-> ClassNames[1 + (i % 2)],
     vtable_symbol |-> VTableSymbols[1 + (i % 2)],
     children |-> children,
     bindings |-> bindings,
     property_declarations |-> props,
     signals_declaration |-> sigs]

RECURSIVE SortedSeq(_)
SortedSeq(S) ==
    IF S = {} THEN <<>>
    ELSE LET m == CHOOSE a \in S : \A b \in S : a <= b
         IN  <<m>> \o SortedSeq(S \ {m})

\* The ordered trees of n elements: par[i] is the parent of element i.
Shapes(n) ==
    {par \in [1..n -> 0..(n - 1)] :
        par[1] = 0 /\ \A i \in 2..n : par[i] >= 1 /\ par[i] < i}

ChildrenOf(par, i) == SortedSeq({j \in DOMAIN par : par[j] = i})

Component(elems) == [id |-> "Main", root_element |-> 1, elems |-> elems]

\* ---- the components of the bound

TwoBindings(i) ==
    <<Binding("width", NumberLiteral(i)), Binding("text", StringLiteral(<<"h", "i">>))>>

\* every tree shape; every element binds nothing or two properties
ShapeFamily ==
    UNION {
        {Component([i \in 1..n |->
                Element(i, ChildrenOf(par, i),
                        IF b[i] THEN TwoBindings(i) ELSE <<>>,
                        IF i = 1 THEN <<PropertyDeclaration("width", "Int32", 11)>> ELSE <<>>,
                        IF i = 1 THEN <<"clicked">> ELSE <<>>)])
            : par \in Shapes(n), b \in [1..n -> BOOLEAN]}
        : n \in 1..MaxElems}

PropNames == {"p", "q"}
TypeLocation(name) == IF name = "p" THEN 21 ELSE 22

\* the property declarations a root may hold, in every iteration order
DeclSeqs ==
    {<<>>}
    \cup {<<PropertyDeclaration(a, t, TypeLocation(a))>> : a \in PropNames, t \in Types}
    \cup {<<PropertyDeclaration(ab[1], t, TypeLocation(ab[1])),
            PropertyDeclaration(ab[2], u, TypeLocation(ab[2]))>> :
            ab \in {pq \in PropNames \X PropNames : pq[1] # pq[2]},
            t \in Types, u \in Types}

\* a root and one child; the root declares up to two properties of any type
TypeFamily ==
    {Component(<<Element(1, <<2>>, <<>>, ds, <<>>),
                 Element(2, <<>>, <<Binding("color", NumberLiteral(42))>>, <<>>, <<>>)>>)
        : ds \in DeclSeqs}

BoundExprs ==
    {NumberLiteral(42), PropertyReference("p", "Int32"), SignalReference("s"), Invalid,
     Cast(PropertyReference("p", "Int32"), "String"),
     Cast(Invalid, "String"), Cast(SignalReference("s"), "Bool")}

LocalDecls ==
    {[props |-> <<>>, sigs |-> <<>>],
     [props |-> <<PropertyDeclaration("q", "Bool", 22)>>, sigs |-> <<>>],
     [props |-> <<PropertyDeclaration("p", "Int32", 23)>>, sigs |-> <<>>],
     [props |-> <<>>, sigs |-> <<"q">>]}

\* a root declaring property p and signal s, and one child with declarations of
\* its own; one of the two binds one name to one expression
ScopeFamily ==
    {Component(<<Element(1, <<2>>,
                         IF focus = 1 THEN <<Binding(nm, e)>> ELSE <<>>,
                         <<PropertyDeclaration("p", "Int32", 21)>>, <<"s">>),
                 Element(2, <<>>,
                         IF focus = 2 THEN <<Binding(nm, e)>> ELSE <<>>,
                         ld.props, ld.sigs)>>)
        : focus \in {1, 2}, nm \in {"p", "q", "s"}, e \in BoundExprs, ld \in LocalDecls}

Components == ShapeFamily \cup TypeFamily \cup ScopeFamily

Root(c) == c.elems[c.root_element]
NumElems(c) == Len(c.elems)

\* the elements in preorder: parents before children, children in declaration order
RECURSIVE Preorder(_, _)
Preorder(c, i) ==
    <<i>> \o Flatten([k \in DOMAIN c.elems[i].children |->
                        Preorder(c, c.elems[i].children[k])])

--------------------------------------------------------------------------
(* diagnostics: CompilerDiagnostic, Diagnostics *)

CompilerDiagnostic(message, span) == [message |-> message, span |-> span]

has_error(d) == d # <<>>

\* what a caller's sink may hold when generate() is entered
Sinks == {<<>>, <<CompilerDiagnostic("earlier error", 1)>>}

--------------------------------------------------------------------------
(* cpp_ast *)

Var(t, name, i) == [decl |-> "Var", ty |-> t, name |-> name, init |-> i]

Function(name, signature, is_constructor, is_static, statements) ==
    [decl |-> "Function", name |-> name, signature |-> signature,
     is_constructor |-> is_constructor, is_static |-> is_static,
     statements |-> statements]

Struct(name, members) == [decl |-> "Struct", name |-> name, members |-> members]

File(includes, declarations) == [includes |-> includes, declarations |-> declarations]

--------------------------------------------------------------------------
(* impl CppType for PropertyDeclaration *)

Ok(v) == [tag |-> "Ok", v |-> v]
Err(e) == [tag |-> "Err", v |-> e]

cpp_typeMutant(decl) ==
    CASE decl.property_type = "Float32" -> Ok("float")
      [] decl.property_type = "Int32" -> Ok("int")
      [] decl.property_type = "String" -> Ok("sixtyfps::SharedString")
      [] decl.property_type = "Color" -> Ok("uint32_t")
      [] OTHER -> Err(CompilerDiagnostic("Cannot map property type to C++",
                                         decl.type_location))
cpp_type(decl) ==
    CASE decl.property_type = "Float32" -> Ok("float")
      [] decl.property_type = "Int32" -> Ok("int")
      [] decl.property_type = "String" -> Ok("sixtyfps::SharedString")
      [] decl.property_type = "Color" -> Ok("uint32_t")
      [] decl.property_type = "Bool" -> Ok("bool")
      [] OTHER -> Err(CompilerDiagnostic("Cannot map property type to C++",
                                         decl.type_location))

--------------------------------------------------------------------------
(* handle_item *)

DeclaredNames(decls) == {decls[k].name : k \in DOMAIN decls}

signal_accessor_prefix(item, s) ==
    IF s \in Range(item.signals_declaration) THEN <<>> ELSE <<item.id, ".">>

accessor_prefix(item, s) ==
    IF s \in DeclaredNames(item.property_declarations) THEN <<>> ELSE <<item.id, ".">>

SetHandlerOpen == ".set_handler([](const void *root) { reinterpret_cast<const "

\* the statement of one binding (s, i) of item (the closure at 164-195)
BindingStatement(item, s, i, struct_name) ==
    IF i.kind = "SignalReference"
    THEN signal_accessor_prefix(item, s) \o <<s, SetHandlerOpen>> \o struct_name
            \o <<"*>(root)->", i.name, ".emit(root); });">>
    ELSE accessor_prefix(item, s) \o <<s, ".set(">> \o compile_expression(i) \o <<");">>

ItemStatements(item, struct_name) ==
    [k \in DOMAIN item.bindings |->
        BindingStatement(item, item.bindings[k].name, item.bindings[k].expr, struct_name)]

ItemMember(item) == Var(<<"sixtyfps::", item.class_name>>, <<item.id>>, None)

\* the calls still owed once item's own member and statements are pushed: its
\* children, in order, each followed by its own subtree, before the rest
DescendMutant(item, rest) == rest \o item.children
Descend(item, rest) == item.children \o rest

--------------------------------------------------------------------------
(* generator::build_array_helper *)

RECURSIVE sub_children_count(_, _)
sub_children_count(c, i) ==
    Len(c.elems[i].children)
        + SumSeq([k \in DOMAIN c.elems[i].children |->
                    sub_children_count(c, c.elems[i].children[k])])

\* the visitor invocations for the descendants of element i, whose children
\* occupy the block of slots starting at children_offset
RECURSIVE visit_children(_, _, _)
visit_children(c, i, children_offset) ==
    LET ch == c.elems[i].children
        offset(k) == children_offset + Len(ch)
                        + SumSeq([j \in 1..(k - 1) |-> sub_children_count(c, ch[j])])
    IN  [k \in DOMAIN ch |-> [item |-> ch[k], children_offset |-> offset(k)]]
            \o Flatten([k \in DOMAIN ch |-> visit_children(c, ch[k], offset(k))])

build_array_helper(c) ==
    <<[item |-> c.root_element, children_offset |-> 1]>>
        \o visit_children(c, c.root_element, 1)

--------------------------------------------------------------------------
(* generate *)

TreeFnSignature == "(sixtyfps::ComponentRef) -> const sixtyfps::ItemTreeNode* "

ChildCountMutant(item) == Len(item.children) + 1
ChildCount(item) == Len(item.children)

\* the visitor closure at 264-275
ItemNode(tree, c, item, children_offset) ==
    tree \o (IF tree = <<>> THEN <<>> ELSE <<", ">>)
         \o <<"sixtyfps::make_item_node(offsetof(", c.id, ", ", item.id,
              "), &sixtyfps::", item.vtable_symbol, ", ",
              ToString(ChildCount(item)), ", ", ToString(children_offset), ")">>

InitWith(components, sinks) ==
    /\ component \in components
    /\ diag0 \in sinks
    /\ diag = diag0
    /\ pc = "start"
    /\ prop_iter = 0
    /\ declared_property_members = <<>>
    /\ declared_property_vars = <<>>
    /\ main_struct = Struct(<<>>, <<>>)
    /\ init = <<>>
    /\ stack = <<>>
    /\ visits = <<>>
    /\ tree_array = <<>>
    /\ x = File(<<>>, <<>>)
    /\ result = Pending
    /\ INDETATION = 0
    /\ emission = 1
    /\ first = Pending
    /\ renders = 0
    /\ lastRender = Pending
    /\ okText = Pending
    /\ ExprUnused /\ au = Unused

Init == InitWith(Components, Sinks)

\* 204-211
Begin ==
    /\ pc = "start"
    /\ x' = File(<<"<sixtyfps.h>">>, <<>>)
    /\ main_struct' = Struct(<<component.id>>, <<>>)
    /\ declared_property_members' = <<>>
    /\ declared_property_vars' = <<>>
    /\ prop_iter' = 1
    /\ pc' = "props"
    /\ UNCHANGED <<component, diag, diag0, init, stack, visits, tree_array, result>>
    /\ UNCHANGED <<exprVars, renderVars, au>>

\* 212-224: one iteration of the loop over the root's property declarations
MapProperty ==
    /\ pc = "props"
    /\ prop_iter <= Len(Root(component).property_declarations)
    /\ LET property_decl == Root(component).property_declarations[prop_iter]
           cpp_name == property_decl.name
           mapped == cpp_type(property_decl)
           cpp_type_text == IF mapped.tag = "Ok" THEN <<mapped.v>> ELSE <<>>
       IN  /\ diag' = IF mapped.tag = "Ok" THEN diag ELSE Append(diag, mapped.v)
           /\ declared_property_members' = Append(declared_property_members, cpp_name)
           /\ declared_property_vars' =
                Append(declared_property_vars,
                       Var(<<"sixtyfps::Property<">> \o cpp_type_text \o <<">">>,
                           <<cpp_name>>, None))
    /\ prop_iter' = prop_iter + 1
    /\ UNCHANGED <<component, diag0, pc, main_struct, init, stack, visits, tree_array,
                   x, result>>
    /\ UNCHANGED <<exprVars, renderVars, au>>

\* 226-234: the property members, then the call of handle_item on the root
ExtendMembers ==
    /\ pc = "props"
    /\ prop_iter > Len(Root(component).property_declarations)
    /\ main_struct' = [main_struct EXCEPT !.members = @ \o declared_property_vars]
    /\ init' = <<>>
    /\ stack' = <<component.root_element>>
    /\ pc' = "items"
    /\ UNCHANGED <<component, diag, diag0, prop_iter, declared_property_members,
                   declared_property_vars, visits, tree_array, x, result>>
    /\ UNCHANGED <<exprVars, renderVars, au>>

\* 151-200: one call of handle_item, up to its recursive calls
HandleItem ==
    /\ pc = "items"
    /\ stack # <<>>
    /\ LET item == component.elems[Head(stack)]
       IN  /\ main_struct' = [main_struct EXCEPT !.members = Append(@, ItemMember(item))]
           /\ init' = init \o ItemStatements(item, main_struct.name)
           /\ stack' = Descend(item, Tail(stack))
    /\ UNCHANGED <<component, diag, diag0, pc, prop_iter, declared_property_members,
                   declared_property_vars, visits, tree_array, x, result>>
    /\ UNCHANGED <<exprVars, renderVars, au>>

SignalMembers(root) ==
    [k \in DOMAIN root.signals_declaration |->
        Var(<<"sixtyfps::Signal">>, <<root.signals_declaration[k]>>, None)]

\* 236-264: the signal members, the constructor, the two static declarations,
\* the struct pushed into the file, and the call of build_array_helper
FinishStruct ==
    /\ pc = "items"
    /\ stack = <<>>
    /\ LET members ==
            main_struct.members
                \o SignalMembers(Root(component))
                \o <<Function(<<component.id>>, <<"()">>, TRUE, FALSE, Some(init)),
                     Function(<<"tree_fn">>, <<TreeFnSignature>>, FALSE, TRUE, None),
                     Var(<<"static const sixtyfps::ComponentVTable">>,
                         <<"component_type">>, None)>>
       IN  /\ main_struct' = [main_struct EXCEPT !.members = members]
           /\ x' = [x EXCEPT !.declarations =
                        Append(@, Struct(main_struct.name, members))]
    /\ tree_array' = <<>>
    /\ visits' = build_array_helper(component)
    /\ pc' = "tree"
    /\ UNCHANGED <<component, diag, diag0, prop_iter, declared_property_members,
                   declared_property_vars, init, stack, result>>
    /\ UNCHANGED <<exprVars, renderVars, au>>

\* 264-275: one invocation of the visitor
VisitItem ==
    /\ pc = "tree"
    /\ visits # <<>>
    /\ tree_array' = ItemNode(tree_array, component,
                              component.elems[Head(visits).item],
                              Head(visits).children_offset)
    /\ visits' = Tail(visits)
    /\ UNCHANGED <<component, diag, diag0, pc, prop_iter, declared_property_members,
                   declared_property_vars, main_struct, init, stack, x, result>>
    /\ UNCHANGED <<exprVars, renderVars, au>>

\* 277-292: the out-of-line tree_fn and component_type
AddDefinitions ==
    /\ pc = "tree"
    /\ visits = <<>>
    /\ x' = [x EXCEPT !.declarations = @ \o
                <<Function(<<component.id, "::tree_fn">>, <<TreeFnSignature>>, FALSE, FALSE,
                           Some(<<<<"static const sixtyfps::ItemTreeNode children[] {">>,
                                  <<"    ">> \o tree_array \o <<" };">>,
                                  <<"return children;">>>>)),
                  Var(<<"const sixtyfps::ComponentVTable">>,
                      <<component.id, "::component_type">>,
                      Some(<<"{ nullptr, sixtyfps::dummy_destory, tree_fn }">>))>>]
    /\ pc' = "gate"
    /\ UNCHANGED <<component, diag, diag0, prop_iter, declared_property_members,
                   declared_property_vars, main_struct, init, stack, visits, tree_array,
                   result>>
    /\ UNCHANGED <<exprVars, renderVars, au>>

GateMutant(d, file) == Some(file)
Gate(d, file) == IF has_error(d) THEN None ELSE Some(file)

\* 294-298
Return ==
    /\ pc = "gate"
    /\ result' = Gate(diag, x)
    /\ pc' = "done"
    /\ UNCHANGED <<component, diag, diag0, prop_iter, declared_property_members,
                   declared_property_vars, main_struct, init, stack, visits, tree_array,
                   x>>
    /\ UNCHANGED <<exprVars, renderVars, au>>

Generate ==
    \/ Begin
    \/ MapProperty
    \/ ExtendMembers
    \/ HandleItem
    \/ FinishStruct
    \/ VisitItem
    \/ AddDefinitions
    \/ Return

Next == Generate

Spec == Init /\ [][Next]_vars

--------------------------------------------------------------------------
(* Properties of one emission (Spec) *)

RootProps == Root(component).property_declarations
RootSignals == Root(component).signals_declaration
Unsupported(decls) == SelectSeq(decls, LAMBDA d : d.property_type \notin SupportedTypes)

\* the members of the struct that generate() pushed into the file
StructMembers == x.declarations[1].members

\* number of tokens of a tree array of n descriptors
TreeTokens(n) == IF n = 0 THEN 0 ELSE 12 * n - 1

FullyAssembled ==
    /\ prop_iter = Len(RootProps) + 1
    /\ stack = <<>> /\ visits = <<>>
    /\ x.includes = <<"<sixtyfps.h>">>
    /\ Len(x.declarations) = 3
    /\ x.declarations[1].decl = "Struct"
    /\ Len(StructMembers) = Len(RootProps) + NumElems(component) + Len(RootSignals) + 3
    /\ Len(tree_array) = TreeTokens(NumElems(component))
    /\ x.declarations[2].decl = "Function"
    /\ x.declarations[2].statements.v[2] = <<"    ">> \o tree_array \o <<" };">>
    /\ x.declarations[3].decl = "Var"

\* C1: generate returns None exactly when the sink holds an error once the whole
\* pass has run, and the assembled File otherwise; nothing is returned (and
\* nothing aborts) before the final gate.
C1_GateAtEnd ==
    /\ pc # "done" => result = Pending
    /\ pc = "done" =>
        /\ FullyAssembled
        /\ (result = None) <=> has_error(diag)
        /\ ~has_error(diag) => result = Some(x)

\* an error recorded during the pass, in a sink that was empty, suppressed a
\* fully assembled file
C1_Witness ==
    /\ pc = "done" /\ result = None
    /\ diag0 = <<>> /\ Len(diag) = 1
    /\ Len(x.declarations) = 3

NativeType(t) ==
    CASE t = "Float32" -> <<"float">>
      [] t = "Int32" -> <<"int">>
      [] t = "String" -> <<"sixtyfps::SharedString">>
      [] t = "Color" -> <<"uint32_t">>
      [] t = "Bool" -> <<"bool">>
      [] OTHER -> <<>>

\* C4: one pass appends exactly one diagnostic per root property of an unsupported
\* type, carrying that declaration's type location, and none for a supported type;
\* every property still gets a member (of the mapped native type, or of the
\* placeholder), and every element is visited and the tree array built before the
\* gate.
C4_TypeMapping ==
    LET done_props == IF pc = "start" THEN <<>>
                      ELSE SubSeq(RootProps, 1, prop_iter - 1)
        bad == Unsupported(done_props)
    IN  /\ Len(diag) = Len(diag0) + Len(bad)
        /\ SubSeq(diag, 1, Len(diag0)) = diag0
        /\ \A k \in DOMAIN bad :
                diag[Len(diag0) + k].span = bad[k].type_location
        /\ Len(declared_property_vars) = Len(done_props)
        /\ \A k \in DOMAIN done_props :
                /\ declared_property_vars[k].name = <<done_props[k].name>>
                /\ declared_property_vars[k].ty =
                      <<"sixtyfps::Property<">> \o NativeType(done_props[k].property_type)
                            \o <<">">>
        /\ pc = "done" =>
                /\ done_props = RootProps
                /\ SubSeq(StructMembers, 1, Len(RootProps)) = declared_property_vars
                /\ Len(StructMembers) =
                      Len(RootProps) + NumElems(component) + Len(RootSignals) + 3
                /\ Len(tree_array) = TreeTokens(NumElems(component))

\* two properties of unsupported types were declared and the pass finished
C4_Witness ==
    /\ pc = "done"
    /\ Len(Unsupported(RootProps)) = 2
    /\ diag0 = <<>> /\ Len(diag) = 2
    /\ result = None

PreorderElems == Preorder(component, component.root_element)

\* C5: the element members follow each other in preorder, one per element, and
\* the constructor statements are the elements' binding statements in the same
\* order, one per binding.
C5_PreorderEmission ==
    pc = "done" =>
        LET P == Len(RootProps)
            N == NumElems(component)
            ctor == StructMembers[P + N + Len(RootSignals) + 1]
        IN  /\ SubSeq(StructMembers, P + 1, P + N) =
                    [k \in 1..N |-> ItemMember(component.elems[PreorderElems[k]])]
            /\ init = Flatten([k \in 1..N |->
                        ItemStatements(component.elems[PreorderElems[k]],
                                       <<component.id>>)])
            /\ Len(init) = SumSeq([k \in 1..N |-> Len(component.elems[k].bindings)])
            /\ ctor.is_constructor /\ ctor.statements = Some(init)

\* four elements whose preorder differs from their arena order, each with bindings
C5_Witness ==
    /\ pc = "done"
    /\ NumElems(component) = 4
    /\ PreorderElems = <<1, 2, 4, 3>>
    /\ Len(init) = 8

\* ---- the descriptors of the tree array, read back from its text
DescBase(k) == IF k = 0 THEN 0 ELSE 12 * k
DescId(k) == tree_array[DescBase(k) + 4]
DescChildCount(k) == tree_array[DescBase(k) + 8]
DescChildrenOffset(k) == tree_array[DescBase(k) + 10]

\* C3: the visitor runs once per element; the root is descriptor 0; each
\* descriptor's child count is its element's number of children, and the children
\* of a non-leaf element are the descriptors from its children-offset on, in
\* declaration order.
C3_FlattenedTree ==
    pc \in {"gate", "done"} =>
        LET N == NumElems(component)
        IN  /\ Len(tree_array) = TreeTokens(N)
            /\ DescId(0) = Root(component).id
            /\ \A i \in 1..N : \E k \in 0..(N - 1) :
                    LET e == component.elems[i]
                    IN  /\ DescId(k) = e.id
                        /\ \A k2 \in 0..(N - 1) : DescId(k2) = e.id => k2 = k
                        /\ DescChildCount(k) = ToString(Len(e.children))
                        /\ e.children # <<>> =>
                            \E off \in 1..(N - 1) :
                                /\ DescChildrenOffset(k) = ToString(off)
                                /\ off + Len(e.children) - 1 <= N - 1
                                /\ \A j \in DOMAIN e.children :
                                      DescId(off + j - 1) = component.elems[e.children[j]].id

\* a root with two children, the first of which has a child of its own
C3_Witness ==
    /\ pc = "done"
    /\ NumElems(component) = 4
    /\ Root(component).children = <<2, 3>>
    /\ component.elems[2].children = <<4>>
    /\ DescId(3) = "e4"

\* ---- the statement of binding j of the k-th element in preorder
StmtIndex(k, j) ==
    SumSeq([m \in 1..(k - 1) |-> Len(component.elems[PreorderElems[m]].bindings)]) + j

BindingsInOrder ==
    {kj \in (1..NumElems(component)) \X (1..Len(init)) :
        kj[2] <= Len(component.elems[PreorderElems[kj[1]]].bindings)}

BoundElem(kj) == component.elems[PreorderElems[kj[1]]]
BoundName(kj) == BoundElem(kj).bindings[kj[2]].name
BoundExpr(kj) == BoundElem(kj).bindings[kj[2]].expr
Stmt(kj) == init[StmtIndex(kj[1], kj[2])]

\* C2: the statement of a binding carries no element prefix exactly when the bound
\* name is declared, as a property or a signal, on the component's root element,
\* and starts with "<element id>." otherwise, for the bindings of every element.
C2_RootScopeDecidesPrefix ==
    pc = "done" =>
        \A kj \in BindingsInOrder :
            LET global == BoundName(kj) \in
                              DeclaredNames(RootProps) \cup Range(RootSignals)
                st == Stmt(kj)
            IN  /\ global => st[1] = BoundName(kj)
                /\ ~global => /\ st[1] = BoundElem(kj).id
                              /\ st[2] = "."
                              /\ st[3] = BoundName(kj)

\* the expressions compile_expression renders with the error marker
RECURSIVE Unlowerable(_)
Unlowerable(e) ==
    \/ e.kind \in {"SignalReference", "Invalid"}
    \/ e.kind = "Cast" /\ Unlowerable(e.from)

NoExpressionDiagnostic ==
    /\ Len(diag) = Len(diag0) + Len(Unsupported(RootProps))
    /\ (diag0 = <<>> /\ Unsupported(RootProps) = <<>>) => result = Some(x)

\* C6 as claimed: a binding of an expression the expression compiler cannot lower
\* records no diagnostic, leaves the result a File, and its statement holds the
\* error marker.
C6_MarkerForEveryUnlowerable ==
    pc = "done" =>
        /\ NoExpressionDiagnostic
        /\ \A kj \in BindingsInOrder :
                Unlowerable(BoundExpr(kj)) => ErrorMarker \in Range(Stmt(kj))

\* C6 as amended: the same, except for a binding whose expression is itself a
\* signal reference: handle_item turns it into a set_handler statement without
\* calling the expression compiler, so that statement holds no error marker.
C6_MarkerUnlessSignalBinding ==
    pc = "done" =>
        /\ NoExpressionDiagnostic
        /\ \A kj \in BindingsInOrder :
                /\ (Unlowerable(BoundExpr(kj)) /\ BoundExpr(kj).kind # "SignalReference")
                        => ErrorMarker \in Range(Stmt(kj))
                /\ BoundExpr(kj).kind = "SignalReference"
                        => /\ ErrorMarker \notin Range(Stmt(kj))
                           /\ SetHandlerOpen \in Range(Stmt(kj))

\* a child binds a cast of an expression that cannot be lowered, and a File is
\* returned whose statement holds the marker
C6_Witness ==
    /\ pc = "done" /\ result = Some(x)
    /\ NumElems(component) = 2
    /\ component.elems[2].bindings = <<Binding("q", Cast(Invalid, "String"))>>
    /\ Len(init) = 1
    /\ ErrorMarker \in Range(init[1])
    /\ diag = <<>>

--------------------------------------------------------------------------
(* cpp_ast: Display *)

MaxEmitElems == 2
MaxRenders == 3

\* A Formatter whose failAt-th write fails (none when failAt = 0), with the
\* thread-local indentation it starts from. at_members collects, for every
\* member rendered, how far INDETATION is above its value on entry of the struct.
Writer(failAt, indentation) ==
    [out |-> <<>>, left |-> failAt - 1, err |-> FALSE, ind |-> indentation,
     writes |-> 0, at_members |-> {}]

\* one write!/writeln! call followed by `?`: once a call has failed, the
\* callers return and nothing after it runs
W(r, text) ==
    IF r.err THEN r
    ELSE IF r.left = 0 THEN [r EXCEPT !.err = TRUE]
    ELSE [r EXCEPT !.out = @ \o text, !.left = @ - 1, !.writes = @ + 1]

RECURSIVE IndentN(_, _)
IndentN(r, n) == IF n = 0 THEN r ELSE IndentN(W(r, <<"    ">>), n - 1)

indent(r) == IF r.err THEN r ELSE IndentN(r, r.ind)

FmtVar(v, r) ==
    LET r1 == indent(r)
        r2 == W(r1, v.ty \o <<" ">> \o v.name)
        r3 == IF v.init.tag = "Some" THEN W(r2, <<" = ">> \o v.init.v) ELSE r2
    IN  W(r3, <<";\n">>)

RECURSIVE FmtStatements(_, _)
FmtStatements(st, r) ==
    IF st = <<>> THEN r
    ELSE FmtStatements(Tail(st), W(indent(r), <<"    ">> \o Head(st) \o <<"\n">>))

FmtFunction(fn, r) ==
    LET r1 == indent(r)
        r2 == IF fn.is_static THEN W(r1, <<"static ">>) ELSE r1
        r3 == IF ~fn.is_constructor THEN W(r2, <<"auto ">>) ELSE r2
        r4 == W(r3, fn.name \o <<" ">> \o fn.signature)
    IN  IF fn.statements.tag = "Some"
        THEN W(indent(FmtStatements(fn.statements.v, W(r4, <<"{\n">>))), <<"}\n">>)
        ELSE W(r4, <<";\n">>)

\* (a u32; it never exceeds the number of renders plus the nesting depth)
EnterMembers(r) == IF r.err THEN r ELSE [r EXCEPT !.ind = @ + 1]
\* reached only when no write of a member failed
LeaveMembers(r) == IF r.err THEN r ELSE [r EXCEPT !.ind = @ - 1]

RECURSIVE FmtDecl(_, _)
RECURSIVE FmtMembers(_, _, _)
FmtMembers(members, r, entry) ==
    IF members = <<>> \/ r.err THEN r
    ELSE FmtMembers(Tail(members),
                    FmtDecl(Head(members),
                            [r EXCEPT !.at_members = @ \cup {r.ind - entry}]),
                    entry)

FmtStruct(s, r) ==
    LET r1 == indent(r)
        r2 == W(r1, <<"struct ">> \o s.name \o <<" {\n">>)
        r3 == EnterMembers(r2)
        r4 == FmtMembers(s.members, r3, r.ind)
        r5 == LeaveMembers(r4)
    IN  W(indent(r5), <<"};\n">>)

FmtDecl(d, r) ==
    CASE d.decl = "Struct" -> FmtStruct(d, r)
      [] d.decl = "Function" -> FmtFunction(d, r)
      [] OTHER -> FmtVar(d, r)

RECURSIVE FmtIncludes(_, _)
FmtIncludes(includes, r) ==
    IF includes = <<>> THEN r
    ELSE FmtIncludes(Tail(includes), W(r, <<"#include ", Head(includes), "\n">>))

RECURSIVE FmtDeclarations(_, _)
FmtDeclarations(ds, r) ==
    IF ds = <<>> THEN r
    ELSE FmtDeclarations(Tail(ds), FmtDecl(Head(ds), W(r, <<"\n">>)))

FmtFile(file, r) == FmtDeclarations(file.declarations, FmtIncludes(file.includes, r))

\* the number of writes of a render that does not fail
NumWrites(file, indentation) == FmtFile(file, Writer(0, indentation)).writes

--------------------------------------------------------------------------
(* EmitSpec: the same Component emitted twice, the Files rendered *)

EmitComponents ==
    {c \in ShapeFamily : NumElems(c) <= MaxEmitElems}
    \cup {c \in TypeFamily : Len(Root(c).property_declarations) <= 1}

EmitInit == InitWith(EmitComponents, {<<>>})

\* `write!(w, "{}", file)` on the File an emission returned
Render ==
    /\ pc = "done"
    /\ result.tag = "Some"
    /\ renders < MaxRenders
    /\ \E failAt \in 0..NumWrites(result.v, INDETATION) :
        LET r == FmtFile(result.v, Writer(failAt, INDETATION))
        IN  /\ INDETATION' = r.ind
            /\ lastRender' = [tag |-> IF r.err THEN "Err" ELSE "Ok",
                              v |-> IF r.err THEN <<>> ELSE r.out,
                              entry |-> INDETATION,
                              at_members |-> r.at_members]
            /\ okText' = IF okText.tag = "Pending" /\ ~r.err /\ emission = 1
                         THEN Some(r.out) ELSE okText
    /\ renders' = renders + 1
    /\ UNCHANGED <<emission, first>>
    /\ UNCHANGED <<exprVars, genVars, au>>

\* generate() called a second time on the same Component, with a fresh sink
Reemit ==
    /\ pc = "done"
    /\ emission = 1
    /\ emission' = 2
    /\ first' = [result |-> result, members |-> main_struct.members, init |-> init,
                 tree_array |-> tree_array]
    /\ lastRender' = Pending
    /\ diag0' = <<>>
    /\ diag' = <<>>
    /\ pc' = "start"
    /\ prop_iter' = 0
    /\ declared_property_members' = <<>>
    /\ declared_property_vars' = <<>>
    /\ main_struct' = Struct(<<>>, <<>>)
    /\ init' = <<>>
    /\ stack' = <<>>
    /\ visits' = <<>>
    /\ tree_array' = <<>>
    /\ x' = File(<<>>, <<>>)
    /\ result' = Pending
    /\ UNCHANGED <<component, INDETATION, renders, okText>>
    /\ UNCHANGED <<exprVars, au>>

EmitNext == Generate \/ Render \/ Reemit

EmitSpec == EmitInit /\ [][EmitNext]_vars

\* C8: the second emission of a Component returns what the first returned (None
\* or the same File: same members, statements and tree descriptors), and a render
\* of the second emission is byte-identical to a render of the first, whatever
\* the first emission and its renders left behind.
C8_SameEmissionTwice ==
    (emission = 2 /\ pc = "done") =>
        /\ result = first.result
        /\ main_struct.members = first.members
        /\ init = first.init
        /\ tree_array = first.tree_array
        /\ (lastRender.tag = "Ok" /\ okText.tag = "Some") => lastRender.v = okText.v

\* C9: a render, whether it returns Ok or a formatter error, leaves INDETATION
\* at the value it had on entry, and while a struct's members are rendered
\* INDETATION is one above its value on entry of that struct.
C9_IndentationRestored ==
    lastRender.tag \in {"Ok", "Err"} =>
        /\ lastRender.at_members \subseteq {1}
        /\ INDETATION = lastRender.entry

--------------------------------------------------------------------------
(* examples/ffmpeg/player/audio.rs: the audio playback thread *)

RbCapacity == 4096
PacketChannelBound == 128
MaxCommands == 2
MaxQueued == 1

Min(a, b) == IF a < b THEN a ELSE b

ControlCommands == {"Pause", "Play"}
\* a packet is the frames it decodes to, each the number of its f32 samples
Packets == {<<>>, <<2048, 2048>>, <<5000>>}
\* data.len() of the output callback
CallbackSizes == {2048}

AudioInit ==
    /\ au = [control_queue |-> <<>>,     \* commands in the unbounded control channel
             control_closed |-> FALSE,
             packet_queue |-> <<>>,      \* packets in the bounded packet channel
             packet_closed |-> FALSE,
             playing |-> TRUE,
             tpc |-> "top",              \* top | control | packet | parked | done
             polled |-> {},              \* the futures this poll of select! found pending
             pf |-> "recv",              \* packet_receiver_impl: recv | frames | wait | finished
             frames |-> <<>>,            \* frames of the current packet still to buffer
             filled |-> 0,               \* samples in the ring buffer
             dropped |-> FALSE,
             joined |-> FALSE,
             at_drop |-> "none"]         \* what the packet future was at when drop() ran
    /\ ExprUnused /\ GenUnused /\ RenderUnused

AudioUnchanged == UNCHANGED <<exprVars, genVars, renderVars>>

free_len == RbCapacity - au.filled

\* send_control_message
SendControl ==
    /\ ~au.dropped
    /\ Len(au.control_queue) < MaxCommands
    /\ \E message \in ControlCommands :
            au' = [au EXCEPT !.control_queue = Append(@, message)]
    /\ AudioUnchanged

\* receive_packet
ReceivePacket ==
    /\ ~au.dropped
    /\ ~au.packet_closed
    /\ Len(au.packet_queue) < Min(PacketChannelBound, MaxQueued)
    /\ \E packet \in Packets :
            au' = [au EXCEPT !.packet_queue = Append(@, packet)]
    /\ AudioUnchanged

\* the packet channel is closed (the condition the `else { break }` at 84 handles)
ClosePackets ==
    /\ ~au.dropped
    /\ ~au.packet_closed
    /\ au' = [au EXCEPT !.packet_closed = TRUE]
    /\ AudioUnchanged

\* the cpal output callback: pop_slice, on the audio thread
AudioCallback ==
    /\ au.tpc # "done"
    /\ au.filled > 0
    /\ \E n \in CallbackSizes :
            au' = [au EXCEPT !.filled = @ - Min(@, n)]
    /\ AudioUnchanged

\* One poll of futures::select!: the branches are polled in a shuffled order.
\* While paused the packet future is OptionFuture(None), which is terminated
\* and skipped.
SelectPoll(order) ==
    /\ au.tpc \in {"top", "parked"}
    /\ au' = [au EXCEPT
                !.polled = {},
                !.tpc = IF order = "packet_first" /\ au.playing
                        THEN "packet" ELSE "control"]
    /\ AudioUnchanged

\* after a branch was found pending: the other branch, or park until woken
AfterPending(s, branch) ==
    LET other == IF branch = "packet" THEN "control" ELSE "packet"
        seen == s.polled \cup {branch}
    IN  [s EXCEPT
            !.polled = seen,
            !.tpc = IF other \in seen \/ (other = "packet" /\ ~s.playing)
                    THEN "parked" ELSE other]

\* 133-136: Err(_): channel closed -> quit
OnControlClosedMutant(s) == [s EXCEPT !.tpc = "top"]
OnControlClosed(s) == [s EXCEPT !.tpc = "done"]

\* 125-138: control_receiver.recv(): queued commands first, then the close
PollControl ==
    /\ au.tpc = "control"
    /\ au' = IF au.control_queue # <<>>
             THEN [au EXCEPT !.playing = (Head(au.control_queue) = "Play"),
                             !.control_queue = Tail(@),
                             !.tpc = "top"]
             ELSE IF au.control_closed
             THEN OnControlClosed(au)
             ELSE AfterPending(au, "control")
    /\ AudioUnchanged

\* 82-113: packet_receiver_impl, run up to its next await or one frame further
PollPacket ==
    /\ au.tpc = "packet"
    /\ \/ /\ au.pf = "recv"
          /\ au' = IF au.packet_queue # <<>>
                   THEN [au EXCEPT !.frames = Head(au.packet_queue),
                                   !.packet_queue = Tail(@),
                                   !.pf = "frames"]
                   ELSE IF au.packet_closed
                   THEN [au EXCEPT !.pf = "finished", !.tpc = "top"]
                   ELSE AfterPending(au, "packet")
       \/ /\ au.pf = "frames"
          /\ au' = IF au.frames = <<>>
                   THEN [au EXCEPT !.pf = "recv"]
                   ELSE IF free_len < Head(au.frames)
                   THEN AfterPending([au EXCEPT !.pf = "wait"], "packet")
                   ELSE [au EXCEPT !.filled = @ + Head(au.frames),
                                   !.frames = Tail(@)]
       \/ \* woken in the timer loop at 103-105: the timer fired
          /\ au.pf = "wait"
          /\ au' = IF free_len < Head(au.frames)
                   THEN AfterPending(au, "packet")
                   ELSE [au EXCEPT !.filled = @ + Head(au.frames),
                                   !.frames = Tail(@),
                                   !.pf = "frames"]
       \/ \* woken in the timer loop: the timer has not fired yet
          /\ au.pf = "wait"
          /\ au' = AfterPending(au, "packet")
       \/ \* the shared future has completed: every clone is ready at once
          /\ au.pf = "finished"
          /\ au' = [au EXCEPT !.tpc = "top"]
    /\ AudioUnchanged

\* 159-161: drop() closes the control channel
Drop ==
    /\ ~au.dropped
    /\ au' = [au EXCEPT
                !.dropped = TRUE,
                !.control_closed = TRUE,
                !.at_drop = IF au.pf = "wait" /\ Head(au.frames) > RbCapacity
                            THEN "oversized" ELSE au.pf]
    /\ AudioUnchanged

\* 162-164: join() returns once the thread's closure has returned
Join ==
    /\ au.dropped
    /\ au.tpc = "done"
    /\ ~au.joined
    /\ au' = [au EXCEPT !.joined = TRUE]
    /\ AudioUnchanged

AudioNext ==
    \/ SendControl
    \/ ReceivePacket
    \/ ClosePackets
    \/ AudioCallback
    \/ SelectPoll("packet_first")
    \/ SelectPoll("control_first")
    \/ PollControl
    \/ PollPacket
    \/ Drop
    \/ Join

\* The playback thread keeps running and is woken when the control channel is
\* closed; select! shuffles its branches on every poll, so the control branch is
\* polled first again and again.
AudioFairness ==
    /\ WF_vars(PollControl)
    /\ WF_vars(PollPacket)
    /\ WF_vars(SelectPoll("packet_first") \/ SelectPoll("control_first"))
    /\ SF_vars(SelectPoll("control_first"))
    /\ WF_vars(Join)

AudioSpec == AudioInit /\ [][AudioNext]_vars /\ AudioFairness

\* C10: once the AudioPlaybackThread is dropped the control channel is closed,
\* and the playback thread eventually returns and the join in drop returns,
\* wherever the thread was and whatever was queued.
C10_DropJoins ==
    /\ [](au.dropped => au.control_closed)
    /\ (au.dropped ~> au.joined)

\* drop ran while the thread was waiting for room for a frame larger than the
\* ring buffer, and the join returned
C10_Witness ==
    /\ au.joined
    /\ au.at_drop = "oversized"

=============================================================================
